---- MODULE Spec2Model ----
(***************************************************************************)
(* Model of rate_limiter.py: the four in-process limiters (token bucket,   *)
(* sliding window, leaky bucket, fixed window), their per-client state and *)
(* the Decisions they return, the Redis-based distributed limiter and the  *)
(* factory; and of the Flask middleware of app.py that puts a limiter in   *)
(* front of an endpoint.                                                   *)
(*                                                                         *)
(* Time.  time.time() is a float number of seconds.  The model counts the  *)
(* clock in ticks, tps ticks to the second, so that instants with a        *)
(* fractional part exist; int(x) of the code is Trunc.  All the arithmetic *)
(* of the code is on rationals whose denominators divide the scales used   *)
(* below, so it is exact here: the rounding of the code's floating-point   *)
(* products and quotients is not modelled, and what is checked of a        *)
(* boundary such as elapsed * rate >= 1 is checked of the exact product.   *)
(* One handler reads time.time() several times; the handler is             *)
(* instantaneous in the model and all its reads return `now`.              *)
(*                                                                         *)
(* Exceptions.  The code validates nothing; what can raise in it is a      *)
(* division by a zero rate and the read of the front of an empty deque.    *)
(* A call that raises is recorded with the exception's name.               *)
(***************************************************************************)
EXTENDS Integers, Sequences, FiniteSets, TLC

VARIABLES
    cfg,        \* the RateLimitConfig the limiter was built from
    now,        \* time.time(), in ticks
    buckets,    \* self.buckets / self.windows: client id -> <<>> (no key) or <<state>>
    last,       \* per client: the latest call on it since the clock last moved
    admits,     \* per watched client: the clock values of its admissions since its last reset
    heap,       \* concurrent callers: the state objects created, by creating thread
    pc,         \* concurrent callers: each thread's position in is_allowed
    loc,        \* concurrent callers: each thread's local variables
    tps,        \* the resolution of the clock in this run: ticks to the second
    redis,      \* distributed limiter: the store, key -> <<>> (no key) or <<sorted set>>
    script,     \* scripted caller: the calls of a scenario and the next one to make
    factory,    \* RateLimiterFactory: its registry and what its create calls returned
    response    \* HTTP adapter: the response to the latest request, <<>> before any

vars ==
    <<cfg, now, buckets, last, admits, heap, pc, loc, tps, redis, script, factory,
      response>>

(***************************************************************************)
(* Bounds of the model.                                                    *)
(***************************************************************************)
TicksPerSecond == 2
MaxTime == 6
MaxCapacity == 2
MaxWindow == 2
MaxTimeClients == 2
NThreads == 2
NRandoms == 2
MaxTimeStore == 3
MaxTimeFactory == 1
MaxTimeSideBySide == 5
MaxTimeApp == 1

\* The client ids: the state machine of one caller uses the first, the one of
\* two clients both.
Clients == {"A", "B"}

(***************************************************************************)
(* Arithmetic helpers.                                                     *)
(***************************************************************************)
Min(a, b) == IF a <= b THEN a ELSE b

\* int(n / d) for d > 0: Python's int() truncates toward zero.
Trunc(n, d) == IF n >= 0 THEN n \div d ELSE -((-n) \div d)

\* int(t) of an instant t given in ticks: whole seconds.
IntSeconds(t) == Trunc(t, tps)

\* A number of whole seconds, in ticks.
Ticks(s) == s * tps

(***************************************************************************)
(* RateLimitConfig.  burst_size = 0 stands for None (the code tests        *)
(* `config.burst_size or ...`, so 0 and None behave alike); refill_rate is *)
(* the rational refill_rate[1] / refill_rate[2], <<0, 1>> standing for     *)
(* None (`if config.refill_rate:`).                                        *)
(***************************************************************************)
TOKEN_BUCKET == "token_bucket"
SLIDING_WINDOW == "sliding_window"
LEAKY_BUCKET == "leaky_bucket"
FIXED_WINDOW == "fixed_window"

LocalAlgorithms == {TOKEN_BUCKET, SLIDING_WINDOW, LEAKY_BUCKET, FIXED_WINDOW}

NoRate == <<0, 1>>

RateLimitConfig(m, w, a, b, r) ==
    [max_requests |-> m, time_window |-> w, algorithm |-> a,
     burst_size |-> b, refill_rate |-> r, distributed |-> FALSE]

\* The same policy with distributed=True.
Distributed(c) == [c EXCEPT !.distributed = TRUE]

\* The explicit refill rates tried: one token every four seconds, three a second.
ExplicitRates == {<<1, 4>>, <<3, 1>>}

\* The policies of the model: every capacity and window within the bounds, and for
\* the token bucket also a burst above the capacity and an explicit refill rate.
\* All satisfy capacity >= 1, window >= 1 and burst >= capacity.
Configs ==
    {RateLimitConfig(m, w, a, 0, NoRate) :
        m \in 1..MaxCapacity, w \in 1..MaxWindow, a \in LocalAlgorithms}
    \cup {RateLimitConfig(m, w, TOKEN_BUCKET, m + 1, NoRate) :
        m \in 1..MaxCapacity, w \in 1..MaxWindow}
    \cup {RateLimitConfig(m, w, TOKEN_BUCKET, 0, r) :
        m \in 1..MaxCapacity, w \in 1..MaxWindow, r \in ExplicitRates}

DefaultTokenBucket(c) ==
    c.algorithm = TOKEN_BUCKET /\ c.burst_size = 0 /\ c.refill_rate = NoRate

(***************************************************************************)
(* RateLimitResponse.  retry_after is <<>> for None and <<n>> for n.       *)
(***************************************************************************)
RateLimitResponse(a, rem, rt, ra, n) ==
    [allowed |-> a, remaining |-> rem, reset_time |-> rt,
     retry_after |-> ra, requests_in_window |-> n]

NoResponse == RateLimitResponse(FALSE, 0, 0, <<>>, 0)

\* What a handler does: the client's state after it, and what it returns.
Outcome(s, d) == [state |-> s, d |-> d]

(***************************************************************************)
(* TokenBucketLimiter.  A bucket's tokens are a real number; the model     *)
(* keeps tokens * TokenScale, an integer: the refill rate is               *)
(* RefillRate[1] / RefillRate[2] tokens a second, that is RefillRate[1]    *)
(* units of 1 / TokenScale tokens a tick.                                  *)
(***************************************************************************)
RefillRate(c) ==
    IF c.refill_rate[1] # 0 THEN c.refill_rate
    ELSE <<c.max_requests, c.time_window>>

TokenScale(c) == RefillRate(c)[2] * tps

NewBucket(c, t) ==
    [tokens |-> c.max_requests * TokenScale(c),
     last_refill |-> t,
     burst_size |-> IF c.burst_size # 0 THEN c.burst_size ELSE c.max_requests]

\* Variant: only the whole seconds that went by refill the bucket.
TokensToAddBySecond(c, elapsed) == Ticks(IntSeconds(elapsed)) * RefillRate(c)[1]

TokensToAdd(c, elapsed) == elapsed * RefillRate(c)[1]

\* Variant: the refill forgets the burst ceiling.
RefillUncapped(c, b, t) ==
    [b EXCEPT !.tokens = b.tokens + TokensToAdd(c, t - b.last_refill),
              !.last_refill = t]

Refill(c, b, t) ==
    [b EXCEPT !.tokens = Min(b.tokens + TokensToAdd(c, t - b.last_refill),
                             b.burst_size * TokenScale(c)),
              !.last_refill = t]

HasToken(c, b) == b.tokens >= TokenScale(c)

\* Variant: an admission takes no token.
TakeNoToken(c, b) == b

TakeToken(c, b) == [b EXCEPT !.tokens = @ - TokenScale(c)]

\* Variant: the hint is rounded up.
TokenRetryAfterCeiling(c) ==
    (RefillRate(c)[2] + RefillRate(c)[1] - 1) \div RefillRate(c)[1]

TokenRetryAfter(c) == Trunc(RefillRate(c)[2], RefillRate(c)[1])

TokenBucketIsAllowed(c, b0, t) ==
    LET b == Refill(c, b0, t) IN
    IF HasToken(c, b)
    THEN LET b2 == TakeToken(c, b)
             left == Trunc(b2.tokens, TokenScale(c))
         IN Outcome(b2, RateLimitResponse(TRUE, left,
                        IntSeconds(Ticks(c.time_window) + t), <<>>,
                        c.max_requests - left))
    ELSE LET retry_after == TokenRetryAfter(c)
         IN Outcome(b, RateLimitResponse(FALSE, 0,
                        IntSeconds(t + Ticks(retry_after)), <<retry_after>>,
                        c.max_requests))

(***************************************************************************)
(* SlidingWindowLimiter.  The state is the deque of admission times.       *)
(***************************************************************************)
NewWindow == <<>>

\* Variant: a timestamp exactly one window old is dropped too.
ExpiredInclusive(ts, window_start) == ts <= window_start

\* Variant: a timestamp is kept for two windows.
ExpiredAfterTwo(ts, window_start) == ts < window_start - Ticks(cfg.time_window)

Expired(ts, window_start) == ts < window_start

RECURSIVE DropExpired(_, _)
DropExpired(window, window_start) ==
    IF window # <<>> /\ Expired(Head(window), window_start)
    THEN DropExpired(Tail(window), window_start)
    ELSE window

\* Variant: the limit is checked with <=.
UnderOrAtLimit(c, n) == n <= c.max_requests

\* Variant: the limit is taken one too low.
UnderLimitLessOne(c, n) == n < c.max_requests - 1

UnderLimit(c, n) == n < c.max_requests

\* Variant: an admitted call reports the count it found, not the count it leaves.
SlidingWindowCountsBefore(c, w0, t) ==
    LET window == DropExpired(w0, t - Ticks(c.time_window)) IN
    IF UnderLimit(c, Len(window))
    THEN Outcome(Append(window, t),
                 RateLimitResponse(TRUE, c.max_requests - Len(window) - 1,
                     IntSeconds(Ticks(c.time_window) + t), <<>>, Len(window)))
    ELSE Outcome(window,
                 RateLimitResponse(FALSE, 0, IntSeconds(Ticks(c.time_window) + t),
                     <<Trunc(window[1] - (t - Ticks(c.time_window)) + tps, tps)>>,
                     Len(window)))

SlidingWindowIsAllowed(c, w0, t) ==
    LET window_start == t - Ticks(c.time_window)
        window == DropExpired(w0, window_start)
        requests_in_window == Len(window)
        reset_time == IntSeconds(Ticks(c.time_window) + t)
    IN IF UnderLimit(c, requests_in_window)
       THEN Outcome(Append(window, t),
                    RateLimitResponse(TRUE, c.max_requests - requests_in_window - 1,
                        reset_time, <<>>, requests_in_window + 1))
       ELSE Outcome(window,
                    RateLimitResponse(FALSE, 0, reset_time,
                        <<Trunc(window[1] - window_start + tps,
                                tps)>>,
                        requests_in_window))

(***************************************************************************)
(* LeakyBucketLimiter.  leak_rate = max_requests / time_window a second.   *)
(***************************************************************************)
NewLeaky(t) == [queue |-> <<>>, last_leak_time |-> t, total_leaked |-> 0]

\* Variant: only the whole seconds that went by leak requests.
RequestsToLeakBySecond(c, elapsed) ==
    Trunc(Ticks(IntSeconds(elapsed)) * c.max_requests, Ticks(c.time_window))

RequestsToLeak(c, elapsed) ==
    Trunc(elapsed * c.max_requests, Ticks(c.time_window))

Leak(c, b, t) ==
    LET popped == Min(RequestsToLeak(c, t - b.last_leak_time), Len(b.queue))
    IN [queue |-> SubSeq(b.queue, popped + 1, Len(b.queue)),
        last_leak_time |-> t,
        total_leaked |-> b.total_leaked + popped]

LeakyRetryAfter(c) == Trunc(c.time_window, c.max_requests)

LeakyBucketIsAllowed(c, b0, t) ==
    LET b == Leak(c, b0, t)
        queue_size == Len(b.queue)
    IN IF UnderLimit(c, queue_size)
       THEN Outcome([b EXCEPT !.queue = Append(@, t)],
                    RateLimitResponse(TRUE, c.max_requests - queue_size - 1,
                        IntSeconds(Ticks(c.time_window) + t), <<>>, queue_size + 1))
       ELSE LET retry_after == LeakyRetryAfter(c)
            IN Outcome(b, RateLimitResponse(FALSE, 0,
                        IntSeconds(t + Ticks(retry_after)), <<retry_after>>,
                        queue_size))

(***************************************************************************)
(* FixedWindowLimiter.                                                     *)
(***************************************************************************)
NewFixed(t) == [count |-> 0, window_start |-> t]

\* Variant: the window is over only after its last instant.
WindowOverStrictly(c, w, t) == t - w.window_start > Ticks(c.time_window)

\* Variant: the window is over at every call.
WindowOverAlways(c, w, t) == t - w.window_start >= 0

WindowOver(c, w, t) == t - w.window_start >= Ticks(c.time_window)

\* Variant: a new window starts with the old count.
RollKeepsCount(c, w, t) ==
    IF WindowOver(c, w, t) THEN [w EXCEPT !.window_start = t] ELSE w

Roll(c, w, t) == IF WindowOver(c, w, t) THEN NewFixed(t) ELSE w

FixedWindowIsAllowed(c, w0, t) ==
    LET w == Roll(c, w0, t)
        reset_time == IntSeconds(w.window_start + Ticks(c.time_window))
    IN IF UnderLimit(c, w.count)
       THEN Outcome([w EXCEPT !.count = @ + 1],
                    RateLimitResponse(TRUE, c.max_requests - (w.count + 1),
                        reset_time, <<>>, w.count + 1))
       ELSE Outcome(w, RateLimitResponse(FALSE, 0, reset_time,
                        <<Trunc(Ticks(reset_time) - t, tps)>>,
                        w.count))

(***************************************************************************)
(* The limiter's three operations, by algorithm.                           *)
(***************************************************************************)
\* Variant: the default state is computed once, when the limiter is built.
FreshAtConstruction(c, t) ==
    CASE c.algorithm = TOKEN_BUCKET -> NewBucket(c, 0)
      [] c.algorithm = SLIDING_WINDOW -> NewWindow
      [] c.algorithm = LEAKY_BUCKET -> NewLeaky(0)
      [] c.algorithm = FIXED_WINDOW -> NewFixed(0)

\* The state a defaultdict creates for a key it does not hold.
Fresh(c, t) ==
    CASE c.algorithm = TOKEN_BUCKET -> NewBucket(c, t)
      [] c.algorithm = SLIDING_WINDOW -> NewWindow
      [] c.algorithm = LEAKY_BUCKET -> NewLeaky(t)
      [] c.algorithm = FIXED_WINDOW -> NewFixed(t)

\* self.buckets[client_id]: the state held, or a fresh one.
Lookup(c, slot, t) == IF slot = <<>> THEN Fresh(c, t) ELSE slot[1]

\* The exception is_allowed raises on state s at clock value t, if any: the reject
\* branches compute int(1 / self.refill_rate), window[0] and int(1 / self.leak_rate).
NoError == ""

ZeroDivisionError == "ZeroDivisionError"

IndexError == "IndexError"

TokenBucketError(c, b0, t) ==
    IF ~HasToken(c, Refill(c, b0, t)) /\ RefillRate(c)[1] = 0
    THEN ZeroDivisionError ELSE NoError

SlidingWindowError(c, w0, t) ==
    LET window == DropExpired(w0, t - Ticks(c.time_window)) IN
    IF ~UnderLimit(c, Len(window)) /\ window = <<>>
    THEN IndexError ELSE NoError

LeakyBucketError(c, b0, t) ==
    IF ~UnderLimit(c, Len(Leak(c, b0, t).queue)) /\ c.max_requests = 0
    THEN ZeroDivisionError ELSE NoError

IsAllowedError(c, s, t) ==
    CASE c.algorithm = TOKEN_BUCKET -> TokenBucketError(c, s, t)
      [] c.algorithm = SLIDING_WINDOW -> SlidingWindowError(c, s, t)
      [] c.algorithm = LEAKY_BUCKET -> LeakyBucketError(c, s, t)
      [] c.algorithm = FIXED_WINDOW -> NoError

\* The state is_allowed has written by the time it raises.
StateAtError(c, s, t) ==
    CASE c.algorithm = TOKEN_BUCKET -> Refill(c, s, t)
      [] c.algorithm = SLIDING_WINDOW -> DropExpired(s, t - Ticks(c.time_window))
      [] c.algorithm = LEAKY_BUCKET -> Leak(c, s, t)
      [] c.algorithm = FIXED_WINDOW -> Roll(c, s, t)

IsAllowedOn(c, s, t) ==
    CASE c.algorithm = TOKEN_BUCKET -> TokenBucketIsAllowed(c, s, t)
      [] c.algorithm = SLIDING_WINDOW -> SlidingWindowIsAllowed(c, s, t)
      [] c.algorithm = LEAKY_BUCKET -> LeakyBucketIsAllowed(c, s, t)
      [] c.algorithm = FIXED_WINDOW -> FixedWindowIsAllowed(c, s, t)

\* Variant: reset keeps the state it finds.
ResetKeeps(c, s, t) == s

\* reset: a new record for the token, leaky and fixed limiters; the sliding window
\* clears the deque it holds (creating it first when the key is new).
ResetOn(c, s, t) ==
    CASE c.algorithm = TOKEN_BUCKET -> NewBucket(c, t)
      [] c.algorithm = SLIDING_WINDOW -> <<>>
      [] c.algorithm = LEAKY_BUCKET -> NewLeaky(t)
      [] c.algorithm = FIXED_WINDOW -> NewFixed(t)

\* get_status: the state it leaves (it refills, leaks or rolls the window; the
\* sliding window only counts).
GetStatusOn(c, s, t) ==
    CASE c.algorithm = TOKEN_BUCKET -> Refill(c, s, t)
      [] c.algorithm = SLIDING_WINDOW -> s
      [] c.algorithm = LEAKY_BUCKET -> Leak(c, s, t)
      [] c.algorithm = FIXED_WINDOW -> Roll(c, s, t)

\* Variant: one state object shared by every client.
StoreShared(map, id, s) == [x \in DOMAIN map |-> <<s>>]

\* Writing a client's state back into the map.
Store(map, id, s) == [map EXCEPT ![id] = <<s>>]

\* The record of a call on a client: the operation, the Decision it returned (for
\* is_allowed), the exception it raised, the exception it caught and logged at error
\* level, and the call before it on the same client at the same clock value.
Call(op, d, before) ==
    [op |-> op, d |-> d, error |-> "", logged |-> "",
     prev |-> [op |-> before.op, d |-> before.d]]

\* The record of a call that caught the exception e, logged it and returned d.
Caught(op, d, e, before) == [Call(op, d, before) EXCEPT !.logged = e]

\* The record of a call that raised: no Decision came back.
Failed(op, e, before) ==
    [op |-> op, d |-> NoResponse, error |-> e, logged |-> "",
     prev |-> [op |-> before.op, d |-> before.d]]

NoCall ==
    [op |-> "none", d |-> NoResponse, error |-> "", logged |-> "",
     prev |-> [op |-> "none", d |-> NoResponse]]

Idle == [t \in {} |-> 0]

\* A scripted caller: the calls to make, in order, each at its clock value (in
\* ticks), and the index of the next one.  A caller that follows no script has none.
Script(calls) == [calls |-> calls, next |-> 1]

NoScript == Script(<<>>)

Invoke(op, id, at) == [op |-> op, id |-> id, at |-> at]

Times(n, call) == [i \in 1..n |-> call]

(***************************************************************************)
(* RateLimiterFactory.  A limiter class is known by its name; the registry *)
(* _limiters maps algorithm tags to classes.  The enum RateLimitAlgorithm  *)
(* has a fifth tag, SLIDING_WINDOW_LOG, which the registry does not hold   *)
(* when the module is loaded.                                              *)
(***************************************************************************)
SLIDING_WINDOW_LOG == "sliding_window_log"

RateLimitAlgorithm == LocalAlgorithms \cup {SLIDING_WINDOW_LOG}

TokenBucketLimiter == "TokenBucketLimiter"

SlidingWindowLimiter == "SlidingWindowLimiter"

LeakyBucketLimiter == "LeakyBucketLimiter"

FixedWindowLimiter == "FixedWindowLimiter"

DistributedRateLimiter == "DistributedRateLimiter"

ValueError == "ValueError"

\* The registry as the class body builds it.
BuiltInLimiters ==
    [a \in LocalAlgorithms |->
        CASE a = TOKEN_BUCKET -> TokenBucketLimiter
          [] a = SLIDING_WINDOW -> SlidingWindowLimiter
          [] a = LEAKY_BUCKET -> LeakyBucketLimiter
          [] a = FIXED_WINDOW -> FixedWindowLimiter]

\* The algorithm a local limiter class implements, whatever config.algorithm says:
\* the classes never read it.
Implements(class) ==
    CASE class = TokenBucketLimiter -> TOKEN_BUCKET
      [] class = SlidingWindowLimiter -> SLIDING_WINDOW
      [] class = LeakyBucketLimiter -> LEAKY_BUCKET
      [] class = FixedWindowLimiter -> FIXED_WINDOW

\* A limiter object as its constructor leaves it: its class, its config and its own
\* empty map of per-client state (the distributed limiter has no map: its state is in
\* the store).
NewLimiter(class, c) ==
    [type |-> class, config |-> c,
     buckets |-> IF class = DistributedRateLimiter THEN Idle
                 ELSE [id \in {"A"} |-> <<>>]]

\* A create call that raised: there is no object.
Raise(e, c) == [type |-> e, config |-> c, buckets |-> Idle]

\* Variant: create looks the tag up before it looks at config.distributed.
CreateRegistryFirst(registry, c) ==
    IF c.algorithm \notin DOMAIN registry THEN Raise(ValueError, c)
    ELSE IF c.distributed THEN NewLimiter(DistributedRateLimiter, c)
    ELSE NewLimiter(registry[c.algorithm], c)

\* RateLimiterFactory.create: what it returns (or raises) under a registry.
Create(registry, c) ==
    IF c.distributed THEN NewLimiter(DistributedRateLimiter, c)
    ELSE IF c.algorithm \notin DOMAIN registry THEN Raise(ValueError, c)
    ELSE NewLimiter(registry[c.algorithm], c)

\* RateLimiterFactory.register: the registry after it.
Register(registry, a, class) ==
    [x \in DOMAIN registry \cup {a} |-> IF x = a THEN class ELSE registry[x]]

\* The factory nobody has called yet.
NoFactory == [registry |-> BuiltInLimiters, made |-> <<>>]

(***************************************************************************)
(* One caller: the state machine of a limiter used from a single thread.   *)
(***************************************************************************)
Init ==
    /\ cfg \in Configs
    /\ now = 0
    /\ buckets = [id \in {"A"} |-> <<>>]
    /\ last = [id \in {"A"} |-> NoCall]
    /\ admits = [id \in {"A"} |-> <<>>]
    /\ heap = Idle
    /\ pc = Idle
    /\ loc = Idle
    /\ tps = TicksPerSecond
    /\ factory = NoFactory
    /\ response = <<>>
    /\ redis = Idle
    /\ script = NoScript

\* The handler proper: what is_allowed does to the limiter (and to the record of
\* calls).  When it raises, the state it had refilled, pruned or leaked stays.
IsAllowedCall(id) ==
    LET s == Lookup(cfg, buckets[id], now)
        e == IsAllowedError(cfg, s, now)
    IN IF e # NoError
       THEN /\ buckets' = Store(buckets, id, StateAtError(cfg, s, now))
            /\ last' = [last EXCEPT ![id] = Failed("is_allowed", e, last[id])]
            /\ admits' = admits
       ELSE LET out == IsAllowedOn(cfg, s, now) IN
            /\ buckets' = Store(buckets, id, out.state)
            /\ last' = [last EXCEPT ![id] = Call("is_allowed", out.d, last[id])]
            /\ admits' = IF out.d.allowed /\ id \in DOMAIN admits
                         THEN [admits EXCEPT ![id] = Append(@, now)]
                         ELSE admits

is_allowed(id) ==
    /\ IsAllowedCall(id)
    /\ UNCHANGED <<cfg, now, heap, pc, loc, tps, redis, script, factory, response>>

ResetCall(id) ==
    /\ buckets' = Store(buckets, id, ResetOn(cfg, Lookup(cfg, buckets[id], now), now))
    /\ last' = [last EXCEPT ![id] = Call("reset", NoResponse, last[id])]
    /\ admits' = [x \in DOMAIN admits |-> IF x = id THEN <<>> ELSE admits[x]]

reset(id) ==
    /\ ResetCall(id)
    /\ UNCHANGED <<cfg, now, heap, pc, loc, tps, redis, script, factory, response>>

GetStatusCall(id) ==
    /\ buckets' = Store(buckets, id, GetStatusOn(cfg, Lookup(cfg, buckets[id], now), now))
    /\ last' = [last EXCEPT ![id] = Call("get_status", NoResponse, last[id])]
    /\ admits' = admits

get_status(id) ==
    /\ GetStatusCall(id)
    /\ UNCHANGED <<cfg, now, heap, pc, loc, tps, redis, script, factory, response>>

\* The clock moves on by one tick, up to the horizon.
Tick(horizon) ==
    /\ now < horizon
    /\ now' = now + 1
    /\ last' = [id \in DOMAIN last |-> NoCall]
    /\ UNCHANGED <<cfg, buckets, admits, heap, pc, loc, tps, redis, script,
                   factory, response>>

Next ==
    \/ \E id \in DOMAIN buckets : is_allowed(id)
    \/ \E id \in DOMAIN buckets : reset(id)
    \/ \E id \in DOMAIN buckets : get_status(id)
    \/ Tick(MaxTime)

Spec == Init /\ [][Next]_vars

(***************************************************************************)
(* Two clients of one limiter, under the default policies.                 *)
(***************************************************************************)
InitClients ==
    /\ cfg \in {c \in Configs : c.burst_size = 0 /\ c.refill_rate = NoRate}
    /\ now = 0
    /\ buckets = [id \in Clients |-> <<>>]
    /\ last = [id \in Clients |-> NoCall]
    /\ admits = Idle
    /\ heap = Idle
    /\ pc = Idle
    /\ loc = Idle
    /\ tps = TicksPerSecond
    /\ factory = NoFactory
    /\ response = <<>>
    /\ redis = Idle
    /\ script = NoScript

NextClients ==
    \/ \E id \in DOMAIN buckets : is_allowed(id)
    \/ \E id \in DOMAIN buckets : reset(id)
    \/ \E id \in DOMAIN buckets : get_status(id)
    \/ Tick(MaxTimeClients)

SpecClients == InitClients /\ [][NextClients]_vars

(***************************************************************************)
(* Unchecked inputs.  RateLimitConfig is a plain dataclass and neither the *)
(* constructors nor RateLimiterFactory.create look at its values; the      *)
(* handlers take any string as client id.  This state machine builds the   *)
(* limiter from a policy with capacity 0, window 0 or a burst below the    *)
(* capacity (one client, "A"), or from a default policy and serves the     *)
(* client whose id is the empty string.                                    *)
(***************************************************************************)
InvalidConfigs ==
    {RateLimitConfig(0, w, a, 0, NoRate) : w \in 1..MaxWindow, a \in LocalAlgorithms}
    \cup {RateLimitConfig(m, 0, a, 0, NoRate) :
        m \in 1..MaxCapacity, a \in LocalAlgorithms}
    \cup {RateLimitConfig(m, w, TOKEN_BUCKET, m - 1, NoRate) :
        m \in 2..MaxCapacity, w \in 1..MaxWindow}

\* What the constructor raises: the token bucket (without an explicit refill rate)
\* and the leaky bucket divide max_requests by time_window.
ConstructError(c) ==
    IF /\ c.time_window = 0
       /\ \/ c.algorithm = TOKEN_BUCKET /\ c.refill_rate[1] = 0
          \/ c.algorithm = LEAKY_BUCKET
    THEN ZeroDivisionError ELSE NoError

\* The clients a limiter built from c can be asked about: none when the constructor
\* raised, for then there is no limiter.
Served(c, ids) == IF ConstructError(c) # NoError THEN {} ELSE ids

InitUnchecked ==
    /\ \E ids \in {{"A"}, {""}} :
          /\ cfg \in IF ids = {"A"} THEN InvalidConfigs
                     ELSE {c \in Configs : c.burst_size = 0 /\ c.refill_rate = NoRate}
          /\ buckets = [id \in Served(cfg, ids) |-> <<>>]
          /\ last = [id \in Served(cfg, ids) |-> NoCall]
    /\ now = 0
    /\ admits = Idle
    /\ heap = Idle
    /\ pc = Idle
    /\ loc = Idle
    /\ tps = TicksPerSecond
    /\ factory = NoFactory
    /\ response = <<>>
    /\ redis = Idle
    /\ script = NoScript

NextUnchecked ==
    \/ \E id \in DOMAIN buckets : is_allowed(id)
    \/ \E id \in DOMAIN buckets : reset(id)
    \/ \E id \in DOMAIN buckets : get_status(id)
    \/ Tick(MaxTime)

SpecUnchecked == InitUnchecked /\ [][NextUnchecked]_vars

(***************************************************************************)
(* DistributedRateLimiter.  The store holds, for a client, a sorted set    *)
(* whose members are the strings now .. '-' .. math.random() scored by     *)
(* now, the clock value in milliseconds the caller passed: the pairs       *)
(* <<now, random>> here.  Whether two runs of the script draw the same     *)
(* random number depends on the store (Redis seeds the generator anew for  *)
(* every run of a script), so the number is any of NRandoms.  A key whose  *)
(* set is empty does not exist; a key lives until its expiry time.  A call *)
(* to the store succeeds, or fails before the store did anything, or fails *)
(* after the store did it (the reply is lost).                             *)
(***************************************************************************)
Randoms == 1..NRandoms

StoreOutcomes == {"ok", "unreachable", "reply_lost"}

RedisError == "RedisError"

\* int(now * 1000) of a clock value in ticks.
Milliseconds(t) == Trunc(t * 1000, tps)

\* The Lua script: the set it leaves, whether it ran EXPIRE, and its reply.
LuaScript(zset, now_ms, window_ms, max_requests, r) ==
    LET window_start == now_ms - window_ms
        kept == {e \in zset : ~(0 <= e[1] /\ e[1] <= window_start)}
        current_count ==
            Cardinality({e \in kept : window_start <= e[1] /\ e[1] <= now_ms})
    IN IF current_count < max_requests
       THEN [zset |-> kept \cup {<<now_ms, r>>}, expire |-> TRUE,
             reply |-> <<1, max_requests - current_count - 1, current_count + 1>>]
       ELSE [zset |-> kept, expire |-> FALSE, reply |-> <<0, 0, current_count>>]

\* A key as the store shows it at clock value t: gone once its expiry time is reached.
ReadKey(slot, t) == IF slot # <<>> /\ slot[1].expire_at <= t THEN <<>> ELSE slot

\* EXPIRE key ARGV[2]: ARGV[2] is time_window * 1000, and EXPIRE counts seconds.
ExpireAt(c, t) == t + Ticks(c.time_window * 1000)

\* Variant: a failing store rejects the call.
FailClosed(c, t) ==
    RateLimitResponse(FALSE, 0, IntSeconds(t + Ticks(c.time_window)), <<>>, 0)

\* Variant: the except branch gives the whole capacity back.
FailOpenFull(c, t) ==
    RateLimitResponse(TRUE, c.max_requests, IntSeconds(t + Ticks(c.time_window)),
                      <<>>, 0)

\* The except branch: the request is allowed.
FailOpen(c, t) ==
    RateLimitResponse(TRUE, c.max_requests - 1, IntSeconds(t + Ticks(c.time_window)),
                      <<>>, 0)

DistributedIsAllowed(c, slot, t, r, store) ==
    LET live == ReadKey(slot, t)
        run == LuaScript(IF live = <<>> THEN {} ELSE live[1].zset, Milliseconds(t),
                         c.time_window * 1000, c.max_requests, r)
        after == IF run.zset = {} THEN <<>>
                 ELSE <<[zset |-> run.zset,
                         expire_at |-> IF run.expire THEN ExpireAt(c, t)
                                       ELSE live[1].expire_at]>>
        reset_time == IntSeconds(t + Ticks(c.time_window))
    IN CASE store = "unreachable" -> Outcome(slot, FailOpen(c, t))
         [] store = "reply_lost" -> Outcome(after, FailOpen(c, t))
         [] store = "ok" ->
            IF run.reply[1] = 1
            THEN Outcome(after, RateLimitResponse(TRUE, run.reply[2], reset_time,
                                                  <<>>, run.reply[3]))
            ELSE IF run.reply[3] = 0
            \* int(time_window / 0) raises inside the try block
            THEN Outcome(after, FailOpen(c, t))
            ELSE Outcome(after, RateLimitResponse(FALSE, 0, reset_time,
                                    <<Trunc(c.time_window, run.reply[3])>>,
                                    run.reply[3]))

\* The exception raised inside the try block of is_allowed, which `except Exception`
\* catches: the store's, or the division of the reject branch by a count of 0.
CaughtError(c, slot, t, r, store) ==
    LET live == ReadKey(slot, t)
        run == LuaScript(IF live = <<>> THEN {} ELSE live[1].zset, Milliseconds(t),
                         c.time_window * 1000, c.max_requests, r)
    IN IF store # "ok" THEN RedisError
       ELSE IF run.reply[1] = 0 /\ run.reply[3] = 0 THEN ZeroDivisionError
       ELSE NoError

InitStore ==
    /\ cfg \in {Distributed(RateLimitConfig(m, w, TOKEN_BUCKET, 0, NoRate)) :
                    m \in 1..MaxCapacity, w \in 1..MaxWindow}
    /\ now = 0
    /\ buckets = Idle
    /\ redis = [id \in {"A"} |-> <<>>]
    /\ last = [id \in {"A"} |-> NoCall]
    /\ admits = Idle
    /\ heap = Idle
    /\ pc = Idle
    /\ loc = Idle
    /\ tps = TicksPerSecond
    /\ factory = NoFactory
    /\ response = <<>>
    /\ script = NoScript

distributed_is_allowed(id) ==
    /\ \E r \in Randoms, store \in StoreOutcomes :
          LET out == DistributedIsAllowed(cfg, redis[id], now, r, store)
              e == CaughtError(cfg, redis[id], now, r, store)
          IN /\ redis' = [redis EXCEPT ![id] = out.state]
             /\ last' = [last EXCEPT ![id] = Caught("is_allowed", out.d, e, last[id])]
    /\ UNCHANGED <<cfg, now, buckets, admits, heap, pc, loc, tps, script,
                   factory, response>>

\* redis_client.delete(key): outside any try block, so a failing store raises.
distributed_reset(id) ==
    /\ \E store \in StoreOutcomes :
          /\ redis' = IF store = "unreachable" THEN redis
                      ELSE [redis EXCEPT ![id] = <<>>]
          /\ last' = [last EXCEPT ![id] =
                        IF store = "ok" THEN Call("reset", NoResponse, last[id])
                        ELSE Failed("reset", RedisError, last[id])]
    /\ UNCHANGED <<cfg, now, buckets, admits, heap, pc, loc, tps, script,
                   factory, response>>

\* zcount and ttl: they read the key.
distributed_get_status(id) ==
    /\ \E store \in StoreOutcomes :
          /\ redis' = IF store = "unreachable" THEN redis
                      ELSE [redis EXCEPT ![id] = ReadKey(@, now)]
          /\ last' = [last EXCEPT ![id] =
                        IF store = "ok" THEN Call("get_status", NoResponse, last[id])
                        ELSE Failed("get_status", RedisError, last[id])]
    /\ UNCHANGED <<cfg, now, buckets, admits, heap, pc, loc, tps, script,
                   factory, response>>

NextStore ==
    \/ \E id \in DOMAIN redis : distributed_is_allowed(id)
    \/ \E id \in DOMAIN redis : distributed_reset(id)
    \/ \E id \in DOMAIN redis : distributed_get_status(id)
    \/ Tick(MaxTimeStore)

SpecStore == InitStore /\ [][NextStore]_vars

\* Every variant: a limiter of one of the four local kinds, or a distributed one.
InitVariants == Init \/ InitStore

\* RateLimiterFactory.create looks at config.distributed first.
LocalVariant ==
    /\ ~cfg.distributed
    /\ Next

DistributedVariant ==
    /\ cfg.distributed
    /\ NextStore

NextVariants ==
    \/ LocalVariant
    \/ DistributedVariant

SpecVariants == InitVariants /\ [][NextVariants]_vars

(***************************************************************************)
(* Scripted callers: the scenarios E1, E2, E3 and E5 of the specification  *)
(* and the policy of example 6 of examples.py, each a fixed row of calls   *)
(* on a limiter built at clock value 0.  E5                                *)
(* needs instants a tenth of a second apart, so its clock has ten ticks to *)
(* the second.  E5FromZero is E5 for a client whose state was created at   *)
(* clock value 0 by a get_status.                                          *)
(***************************************************************************)
Scenario(c, resolution, calls) == [cfg |-> c, tps |-> resolution, calls |-> calls]

E1 ==
    Scenario(RateLimitConfig(10, 60, TOKEN_BUCKET, 0, NoRate), TicksPerSecond,
             Times(15, Invoke("is_allowed", "c1", 0)))

E2 ==
    Scenario(RateLimitConfig(5, 10, SLIDING_WINDOW, 0, NoRate), TicksPerSecond,
             Times(7, Invoke("is_allowed", "c2", 0))
             \o Times(2, Invoke("is_allowed", "c2", 11 * TicksPerSecond)))

E3 ==
    Scenario(RateLimitConfig(5, 10, LEAKY_BUCKET, 0, NoRate), TicksPerSecond,
             Times(7, Invoke("is_allowed", "c3", 0))
             \o Times(1, Invoke("is_allowed", "c3", 2 * TicksPerSecond)))

E5 ==
    Scenario(RateLimitConfig(10, 5, FIXED_WINDOW, 0, NoRate), 10,
             Times(10, Invoke("is_allowed", "c5", 49))
             \o Times(10, Invoke("is_allowed", "c5", 50)))

E5FromZero ==
    Scenario(E5.cfg, E5.tps, <<Invoke("get_status", "c5", 0)>> \o E5.calls)

\* The policy of example 6 (capacity 100 a minute, burst 150): a call that creates the
\* bucket, and one a minute later, when the bucket has refilled to the burst size.
Example6 ==
    Scenario(RateLimitConfig(100, 60, TOKEN_BUCKET, 150, NoRate), TicksPerSecond,
             <<Invoke("is_allowed", "burst_client", 0),
               Invoke("is_allowed", "burst_client", 60 * TicksPerSecond)>>)

Scenarios == {E1, E2, E3, E5, E5FromZero, Example6}

Callers(calls) == {calls[i].id : i \in 1..Len(calls)}

InitScript ==
    \E e \in Scenarios :
        /\ cfg = e.cfg
        /\ tps = e.tps
        /\ factory = NoFactory
        /\ response = <<>>
        /\ script = Script(e.calls)
        /\ now = 0
        /\ buckets = [id \in Callers(e.calls) |-> <<>>]
        /\ last = [id \in Callers(e.calls) |-> NoCall]
        /\ admits = [id \in Callers(e.calls) |-> <<>>]
        /\ heap = Idle
        /\ pc = Idle
        /\ loc = Idle
        /\ redis = Idle

Pending == script.next <= Len(script.calls)

\* The caller makes the next call of the script, when its time has come.
ScriptedCall ==
    /\ Pending
    /\ script.calls[script.next].at = now
    /\ LET call == script.calls[script.next] IN
       CASE call.op = "is_allowed" -> IsAllowedCall(call.id)
         [] call.op = "get_status" -> GetStatusCall(call.id)
         [] call.op = "reset" -> ResetCall(call.id)
    /\ script' = [script EXCEPT !.next = @ + 1]
    /\ UNCHANGED <<cfg, now, heap, pc, loc, tps, redis, factory, response>>

\* The clock moves on to the time of the next call.
ScriptedTick ==
    /\ Pending
    /\ Tick(script.calls[script.next].at)

NextScript ==
    \/ ScriptedCall
    \/ ScriptedTick

SpecScript == InitScript /\ [][NextScript]_vars

\* One caller, free or scripted.
Unscripted ==
    /\ script = NoScript
    /\ Next

NextWithScript ==
    \/ Unscripted
    \/ NextScript

InitWithScript == Init \/ InitScript

SpecWithScript == InitWithScript /\ [][NextWithScript]_vars

(***************************************************************************)
(* Concurrent callers.  NThreads threads each call is_allowed once for the *)
(* same client, which the limiter holds no state for, at one clock value.  *)
(* The limiters take no lock: a thread may be preempted between any two    *)
(* bytecodes, so every read and every write of the shared map and of a     *)
(* state object is a step of its own; what a thread computes on its own    *)
(* locals is folded into the step that precedes it.  A state object is     *)
(* named by the thread that created it; buckets maps the client to <<>> or *)
(* <<the object's name>>, and heap holds the objects.                      *)
(***************************************************************************)
Threads == 1..NThreads

Shared == "A"

NoLocals ==
    [bucket |-> 0, elapsed |-> 0, tokens |-> 0, requests_in_window |-> 0,
     remaining |-> 0, d |-> NoResponse]

Raised == "raised"

Done == "done"

Goto(t, label) == pc' = [pc EXCEPT ![t] = label]

Return(t, d) ==
    /\ pc' = [pc EXCEPT ![t] = Done]
    /\ loc' = [loc EXCEPT ![t].d = d]

\* The object thread t holds a reference to.
Obj(t) == heap[loc[t].bucket][1]

Write(t, s) == heap' = [heap EXCEPT ![loc[t].bucket] = <<s>>]

InitThreads ==
    /\ cfg \in {c \in Configs : /\ c.algorithm \in {TOKEN_BUCKET, SLIDING_WINDOW}
                                /\ c.burst_size = 0 /\ c.refill_rate = NoRate}
    /\ now = 0
    /\ buckets = [id \in {Shared} |-> <<>>]
    /\ last = Idle
    /\ admits = Idle
    /\ heap = [t \in Threads |-> <<>>]
    /\ pc = [t \in Threads |->
                IF cfg.algorithm = TOKEN_BUCKET THEN "refill_lookup" ELSE "lookup"]
    /\ loc = [t \in Threads |-> NoLocals]
    /\ tps = TicksPerSecond
    /\ factory = NoFactory
    /\ response = <<>>
    /\ redis = Idle
    /\ script = NoScript

\* TokenBucketLimiter.is_allowed, with _refill inlined, step by step.
TokenBucketStep(t) ==
    /\ cfg.algorithm = TOKEN_BUCKET
    /\ UNCHANGED <<cfg, now, last, admits, tps, redis, script, factory, response>>
    /\ CASE pc[t] = "refill_lookup" ->
            \* bucket = self.buckets[client_id]: on a miss the defaultdict calls the
            \* lambda, which builds the record, and stores it in a later step.
            IF buckets[Shared] # <<>>
            THEN /\ loc' = [loc EXCEPT ![t].bucket = buckets[Shared][1]]
                 /\ Goto(t, "refill_elapsed")
                 /\ UNCHANGED <<buckets, heap>>
            ELSE /\ heap' = [heap EXCEPT ![t] = <<NewBucket(cfg, now)>>]
                 /\ Goto(t, "refill_insert")
                 /\ UNCHANGED <<buckets, loc>>
         [] pc[t] = "refill_insert" ->
            /\ buckets' = [buckets EXCEPT ![Shared] = <<t>>]
            /\ loc' = [loc EXCEPT ![t].bucket = t]
            /\ Goto(t, "refill_elapsed")
            /\ UNCHANGED heap
         [] pc[t] = "refill_elapsed" ->
            /\ loc' = [loc EXCEPT ![t].elapsed = now - Obj(t).last_refill]
            /\ Goto(t, "refill_read")
            /\ UNCHANGED <<buckets, heap>>
         [] pc[t] = "refill_read" ->
            /\ loc' = [loc EXCEPT ![t].tokens = Obj(t).tokens]
            /\ Goto(t, "refill_write")
            /\ UNCHANGED <<buckets, heap>>
         [] pc[t] = "refill_write" ->
            /\ Write(t, [Obj(t) EXCEPT !.tokens =
                    Min(loc[t].tokens + TokensToAdd(cfg, loc[t].elapsed),
                        Obj(t).burst_size * TokenScale(cfg))])
            /\ Goto(t, "refill_stamp")
            /\ UNCHANGED <<buckets, loc>>
         [] pc[t] = "refill_stamp" ->
            /\ Write(t, [Obj(t) EXCEPT !.last_refill = now])
            /\ Goto(t, "lookup")
            /\ UNCHANGED <<buckets, loc>>
         [] pc[t] = "lookup" ->
            /\ loc' = [loc EXCEPT ![t].bucket = buckets[Shared][1]]
            /\ Goto(t, "check")
            /\ UNCHANGED <<buckets, heap>>
         [] pc[t] = "check" ->
            /\ UNCHANGED <<buckets, heap>>
            /\ IF HasToken(cfg, Obj(t))
               THEN Goto(t, "take_read") /\ UNCHANGED loc
               ELSE Return(t, RateLimitResponse(FALSE, 0,
                        IntSeconds(now + Ticks(TokenRetryAfter(cfg))),
                        <<TokenRetryAfter(cfg)>>, cfg.max_requests))
         [] pc[t] = "take_read" ->
            /\ loc' = [loc EXCEPT ![t].tokens = Obj(t).tokens]
            /\ Goto(t, "take_write")
            /\ UNCHANGED <<buckets, heap>>
         [] pc[t] = "take_write" ->
            /\ Write(t, [Obj(t) EXCEPT !.tokens = loc[t].tokens - TokenScale(cfg)])
            /\ Goto(t, "remaining")
            /\ UNCHANGED <<buckets, loc>>
         [] pc[t] = "remaining" ->
            /\ loc' = [loc EXCEPT ![t].remaining = Trunc(Obj(t).tokens, TokenScale(cfg))]
            /\ Goto(t, "in_window")
            /\ UNCHANGED <<buckets, heap>>
         [] pc[t] = "in_window" ->
            /\ Return(t, RateLimitResponse(TRUE, loc[t].remaining,
                    IntSeconds(Ticks(cfg.time_window) + now), <<>>,
                    cfg.max_requests - Trunc(Obj(t).tokens, TokenScale(cfg))))
            /\ UNCHANGED <<buckets, heap>>
         [] OTHER -> FALSE

\* SlidingWindowLimiter.is_allowed, step by step.  defaultdict(deque) creates and
\* stores the deque in one step (the factory is a built-in type).
SlidingWindowStep(t) ==
    LET window_start == now - Ticks(cfg.time_window)
        reset_time == IntSeconds(Ticks(cfg.time_window) + now)
    IN
    /\ cfg.algorithm = SLIDING_WINDOW
    /\ UNCHANGED <<cfg, now, last, admits, tps, redis, script, factory, response>>
    /\ CASE pc[t] = "lookup" ->
            /\ IF buckets[Shared] # <<>>
               THEN /\ loc' = [loc EXCEPT ![t].bucket = buckets[Shared][1]]
                    /\ UNCHANGED <<buckets, heap>>
               ELSE /\ heap' = [heap EXCEPT ![t] = <<NewWindow>>]
                    /\ buckets' = [buckets EXCEPT ![Shared] = <<t>>]
                    /\ loc' = [loc EXCEPT ![t].bucket = t]
            /\ Goto(t, "loop_nonempty")
         [] pc[t] = "loop_nonempty" ->
            \* while window ...
            /\ Goto(t, IF Obj(t) # <<>> THEN "loop_head" ELSE "count")
            /\ UNCHANGED <<buckets, heap, loc>>
         [] pc[t] = "loop_head" ->
            \* ... and window[0] < window_start: IndexError on an empty deque
            /\ Goto(t, IF Obj(t) = <<>> THEN Raised
                       ELSE IF Expired(Head(Obj(t)), window_start) THEN "loop_pop"
                       ELSE "count")
            /\ UNCHANGED <<buckets, heap, loc>>
         [] pc[t] = "loop_pop" ->
            /\ IF Obj(t) = <<>>
               THEN Goto(t, Raised) /\ UNCHANGED heap
               ELSE Goto(t, "loop_nonempty") /\ Write(t, Tail(Obj(t)))
            /\ UNCHANGED <<buckets, loc>>
         [] pc[t] = "count" ->
            /\ loc' = [loc EXCEPT ![t].requests_in_window = Len(Obj(t))]
            /\ Goto(t, IF UnderLimit(cfg, Len(Obj(t))) THEN "append" ELSE "reject")
            /\ UNCHANGED <<buckets, heap>>
         [] pc[t] = "append" ->
            /\ Write(t, Append(Obj(t), now))
            /\ Return(t, RateLimitResponse(TRUE,
                    cfg.max_requests - loc[t].requests_in_window - 1,
                    reset_time, <<>>, loc[t].requests_in_window + 1))
            /\ UNCHANGED buckets
         [] pc[t] = "reject" ->
            /\ UNCHANGED <<buckets, heap>>
            /\ IF Obj(t) = <<>>
               THEN Goto(t, Raised) /\ UNCHANGED loc
               ELSE Return(t, RateLimitResponse(FALSE, 0, reset_time,
                        <<Trunc(Head(Obj(t)) - window_start + tps,
                                tps)>>,
                        loc[t].requests_in_window))
         [] OTHER -> FALSE

NextThreads ==
    \/ \E t \in Threads : TokenBucketStep(t)
    \/ \E t \in Threads : SlidingWindowStep(t)

SpecThreads == InitThreads /\ [][NextThreads]_vars

(***************************************************************************)
(* Limiters made by the factory.  A caller keeps what create returned      *)
(* under a name, L1 or L2; each limiter object has its own map of          *)
(* per-client state, and every DistributedRateLimiter connects to the      *)
(* store at config.redis_url, whose default all the policies here leave    *)
(* alone: one store, and in it the key "rate_limit:" .. client_id.         *)
(* register is called with the unregistered tag and with a built-in one.   *)
(***************************************************************************)
Limiters == {"L1", "L2"}

FactoryCapacities == {1, 2}

\* The policies create is called with: one-second windows, every tag of the enum for
\* distributed=False, the default tag and the unregistered one for distributed=True.
FactoryConfigs ==
    {RateLimitConfig(m, 1, a, 0, NoRate) :
        m \in FactoryCapacities, a \in RateLimitAlgorithm}
    \cup {Distributed(RateLimitConfig(m, 1, a, 0, NoRate)) :
        m \in FactoryCapacities, a \in {TOKEN_BUCKET, SLIDING_WINDOW_LOG}}

Registrations ==
    {<<SLIDING_WINDOW_LOG, SlidingWindowLimiter>>, <<FIXED_WINDOW, SlidingWindowLimiter>>}

\* The config a local limiter object behaves by: its class decides the algorithm.
Policy(l) == [l.config EXCEPT !.algorithm = Implements(l.type)]

IsLimiter(l) == l.type # ValueError

InitFactory ==
    /\ cfg = <<>>
    /\ now = 0
    /\ buckets = Idle
    /\ redis = [id \in {"A"} |-> <<>>]
    /\ last = Idle
    /\ admits = Idle
    /\ heap = Idle
    /\ pc = Idle
    /\ loc = Idle
    /\ tps = TicksPerSecond
    /\ factory = NoFactory
    /\ response = <<>>
    /\ script = NoScript

\* L = RateLimiterFactory.create(c)
create(h, c) ==
    /\ h \notin DOMAIN factory.made
    /\ factory' = [factory EXCEPT !.made =
                      [x \in DOMAIN @ \cup {h} |->
                          IF x = h THEN Create(factory.registry, c) ELSE @[x]]]
    /\ UNCHANGED <<cfg, now, buckets, last, admits, heap, pc, loc, tps, redis, script,
                   response>>

register(a, class) ==
    /\ factory' = [factory EXCEPT !.registry = Register(@, a, class)]
    /\ UNCHANGED <<cfg, now, buckets, last, admits, heap, pc, loc, tps, redis, script,
                   response>>

\* L.is_allowed(id).  No client is watched here: the record of calls stays empty.
limiter_is_allowed(h, id) ==
    /\ h \in DOMAIN factory.made
    /\ IsLimiter(factory.made[h])
    /\ LET l == factory.made[h] IN
       IF l.type = DistributedRateLimiter
       THEN /\ \E r \in Randoms, store \in StoreOutcomes :
                 redis' = [redis EXCEPT ![id] =
                    DistributedIsAllowed(l.config, redis[id], now, r, store).state]
            /\ factory' = factory
       ELSE LET c == Policy(l)
                s == Lookup(c, l.buckets[id], now)
            IN /\ factory' =
                      [factory EXCEPT !.made[h].buckets =
                          Store(@, id, IF IsAllowedError(c, s, now) # NoError
                                       THEN StateAtError(c, s, now)
                                       ELSE IsAllowedOn(c, s, now).state)]
               /\ redis' = redis
    /\ UNCHANGED <<cfg, now, buckets, last, admits, heap, pc, loc, tps, script,
                   response>>

\* L.reset(id)
limiter_reset(h, id) ==
    /\ h \in DOMAIN factory.made
    /\ IsLimiter(factory.made[h])
    /\ LET l == factory.made[h] IN
       IF l.type = DistributedRateLimiter
       THEN /\ \E store \in StoreOutcomes :
                 redis' = IF store = "unreachable" THEN redis
                          ELSE [redis EXCEPT ![id] = <<>>]
            /\ factory' = factory
       ELSE LET c == Policy(l) IN
            /\ factory' =
                   [factory EXCEPT !.made[h].buckets =
                       Store(@, id, ResetOn(c, Lookup(c, l.buckets[id], now), now))]
            /\ redis' = redis
    /\ UNCHANGED <<cfg, now, buckets, last, admits, heap, pc, loc, tps, script,
                   response>>

\* L.get_status(id)
limiter_get_status(h, id) ==
    /\ h \in DOMAIN factory.made
    /\ IsLimiter(factory.made[h])
    /\ LET l == factory.made[h] IN
       IF l.type = DistributedRateLimiter
       THEN /\ \E store \in StoreOutcomes :
                 redis' = IF store = "unreachable" THEN redis
                          ELSE [redis EXCEPT ![id] = ReadKey(@, now)]
            /\ factory' = factory
       ELSE LET c == Policy(l) IN
            /\ factory' =
                   [factory EXCEPT !.made[h].buckets =
                       Store(@, id, GetStatusOn(c, Lookup(c, l.buckets[id], now), now))]
            /\ redis' = redis
    /\ UNCHANGED <<cfg, now, buckets, last, admits, heap, pc, loc, tps, script,
                   response>>

NextFactory ==
    \/ \E h \in Limiters, c \in FactoryConfigs : create(h, c)
    \/ \E reg \in Registrations : register(reg[1], reg[2])
    \/ \E h \in Limiters, id \in DOMAIN redis : limiter_is_allowed(h, id)
    \/ \E h \in Limiters, id \in DOMAIN redis : limiter_reset(h, id)
    \/ \E h \in Limiters, id \in DOMAIN redis : limiter_get_status(h, id)
    \/ Tick(MaxTimeFactory)

SpecFactory == InitFactory /\ [][NextFactory]_vars

(***************************************************************************)
(* Side by side: a DistributedRateLimiter on a healthy store and a         *)
(* SlidingWindowLimiter of the same capacity and window, the caller        *)
(* passing every is_allowed call to both at the same clock value.          *)
(***************************************************************************)
\* The local sliding-window policy of the same capacity and window.
LocalOf(c) == [c EXCEPT !.distributed = FALSE, !.algorithm = SLIDING_WINDOW]

InitSideBySide ==
    /\ cfg \in {Distributed(RateLimitConfig(m, w, TOKEN_BUCKET, 0, NoRate)) :
                    m \in 1..MaxCapacity, w \in 1..MaxWindow}
    /\ now = 0
    /\ buckets = [id \in {"A"} |-> <<>>]
    /\ redis = [id \in {"A"} |-> <<>>]
    /\ last = Idle
    /\ admits = Idle
    /\ heap = Idle
    /\ pc = Idle
    /\ loc = Idle
    /\ tps = TicksPerSecond
    /\ factory = NoFactory
    /\ response = <<>>
    /\ script = NoScript

both_is_allowed(id) ==
    /\ \E r \in Randoms :
          redis' = [redis EXCEPT ![id] =
                       DistributedIsAllowed(cfg, redis[id], now, r, "ok").state]
    /\ buckets' =
          Store(buckets, id,
                SlidingWindowIsAllowed(LocalOf(cfg), Lookup(LocalOf(cfg), buckets[id], now),
                                       now).state)
    /\ UNCHANGED <<cfg, now, last, admits, heap, pc, loc, tps, script, factory,
                   response>>

NextSideBySide ==
    \/ \E id \in DOMAIN redis : both_is_allowed(id)
    \/ Tick(MaxTimeSideBySide)

SpecSideBySide == InitSideBySide /\ [][NextSideBySide]_vars

(***************************************************************************)
(* app.py: RateLimitMiddleware.  An endpoint decorated with limit(...) has *)
(* one limiter, built by the factory from max_requests, time_window and    *)
(* algorithm (storage = 'memory').  A request names its client by the      *)
(* X-API-Key header or else by its peer address; the wrapper asks the      *)
(* limiter, answers 429 itself when the client is rejected, and            *)
(* _after_request writes the headers from the Decision; str() of a number  *)
(* is its decimal numeral.                                                 *)
(***************************************************************************)
\* _get_default_client_id: the API key, else the peer address, else 'unknown'.
DefaultClientId(api_key, remote_addr) ==
    IF api_key # <<>> THEN api_key[1]
    ELSE IF remote_addr # <<>> THEN remote_addr[1]
    ELSE "unknown"

ApiKeys == {<<>>, <<"A">>}

RemoteAddrs == {<<>>, <<"B">>}

AppClients == {DefaultClientId(k, a) : k \in ApiKeys, a \in RemoteAddrs}

\* The headers _after_request adds, g.rate_limit_info being None (<<>>) or a Decision.
AfterRequest(info) ==
    IF info = <<>> THEN Idle
    ELSE LET d == info[1]
             hint == IF d.retry_after # <<>> /\ d.retry_after[1] # 0
                     THEN {"Retry-After"} ELSE {}
         IN [h \in {"X-RateLimit-Limit", "X-RateLimit-Remaining", "X-RateLimit-Reset"}
                      \cup hint |->
                CASE h = "X-RateLimit-Limit" -> ToString(d.requests_in_window)
                  [] h = "X-RateLimit-Remaining" -> ToString(d.remaining)
                  [] h = "X-RateLimit-Reset" -> ToString(d.reset_time)
                  [] h = "Retry-After" -> ToString(d.retry_after[1])]

HttpResponse(status, headers) == [status |-> status, headers |-> headers]

\* The response to a request whose is_allowed call is recorded in call: 500 without
\* rate-limit headers when it raised, 429 when it rejected, else the endpoint's 200.
Respond(call) ==
    IF call.error # NoError THEN HttpResponse(500, AfterRequest(<<>>))
    ELSE HttpResponse(IF call.d.allowed THEN 200 ELSE 429, AfterRequest(<<call.d>>))

InitApp ==
    /\ cfg \in {c \in Configs : c.burst_size = 0 /\ c.refill_rate = NoRate}
    /\ now = 0
    /\ buckets = [id \in AppClients |-> <<>>]
    /\ last = [id \in AppClients |-> NoCall]
    /\ admits = Idle
    /\ heap = Idle
    /\ pc = Idle
    /\ loc = Idle
    /\ tps = TicksPerSecond
    /\ factory = NoFactory
    /\ response = <<>>
    /\ redis = Idle
    /\ script = NoScript

\* One request through the decorated endpoint.
request(api_key, remote_addr) ==
    LET client_id == DefaultClientId(api_key, remote_addr) IN
    /\ IsAllowedCall(client_id)
    /\ response' = Respond(last'[client_id])
    /\ UNCHANGED <<cfg, now, heap, pc, loc, tps, redis, script, factory>>

\* The clock moves on; the response stays the latest one sent.
NextApp ==
    \/ \E api_key \in ApiKeys, remote_addr \in RemoteAddrs : request(api_key, remote_addr)
    \/ Tick(MaxTimeApp)

SpecApp == InitApp /\ [][NextApp]_vars

(***************************************************************************)
(* Several processes, one store.  DistributedRateLimiter.is_allowed reads  *)
(* the clock, then sends the reading to the store with the script; the     *)
(* store runs the script atomically when the request arrives.  Between the *)
(* two, the clock may move and the scripts of other processes may run.     *)
(* The key's expiry is counted on the store's clock, the clock value at    *)
(* which the script runs.                                                  *)
(***************************************************************************)
NProcesses == 2

MaxTimeProcesses == 2

Processes == 1..NProcesses

NoReading == [now |-> 0, d |-> NoResponse]

\* is_allowed with the clock read at `read` and the script run at t.
DistributedIsAllowedAt(c, slot, read, t, r, store) ==
    LET live == ReadKey(slot, t)
        run == LuaScript(IF live = <<>> THEN {} ELSE live[1].zset, Milliseconds(read),
                         c.time_window * 1000, c.max_requests, r)
        after == IF run.zset = {} THEN <<>>
                 ELSE <<[zset |-> run.zset,
                         expire_at |-> IF run.expire THEN ExpireAt(c, t)
                                       ELSE live[1].expire_at]>>
        reset_time == IntSeconds(read + Ticks(c.time_window))
    IN CASE store = "unreachable" -> Outcome(slot, FailOpen(c, read))
         [] store = "reply_lost" -> Outcome(after, FailOpen(c, read))
         [] store = "ok" ->
            IF run.reply[1] = 1
            THEN Outcome(after, RateLimitResponse(TRUE, run.reply[2], reset_time,
                                                  <<>>, run.reply[3]))
            ELSE IF run.reply[3] = 0
            THEN Outcome(after, FailOpen(c, read))
            ELSE Outcome(after, RateLimitResponse(FALSE, 0, reset_time,
                                    <<Trunc(c.time_window, run.reply[3])>>,
                                    run.reply[3]))

InitProcesses ==
    /\ cfg \in {Distributed(RateLimitConfig(m, w, TOKEN_BUCKET, 0, NoRate)) :
                    m \in 1..MaxCapacity, w \in 1..MaxWindow}
    /\ now = 0
    /\ buckets = Idle
    /\ redis = [id \in {"A"} |-> <<>>]
    /\ last = Idle
    /\ admits = Idle
    /\ heap = Idle
    /\ pc = [p \in Processes |-> "idle"]
    /\ loc = [p \in Processes |-> NoReading]
    /\ tps = TicksPerSecond
    /\ factory = NoFactory
    /\ response = <<>>
    /\ script = NoScript

\* now = time.time(): the call begins.
read_clock(p) ==
    /\ pc[p] = "idle"
    /\ pc' = [pc EXCEPT ![p] = "script"]
    /\ loc' = [loc EXCEPT ![p] = [now |-> now, d |-> NoResponse]]
    /\ UNCHANGED <<cfg, now, buckets, last, admits, heap, tps, redis, script,
                   factory, response>>

\* self.lua_script(...) and the return: the store runs the script with the reading.
run_script(p, id) ==
    /\ pc[p] = "script"
    /\ \E r \in Randoms, store \in StoreOutcomes :
          LET out == DistributedIsAllowedAt(cfg, redis[id], loc[p].now, now, r, store)
          IN /\ redis' = [redis EXCEPT ![id] = out.state]
             /\ loc' = [loc EXCEPT ![p].d = out.d]
    /\ pc' = [pc EXCEPT ![p] = "idle"]
    /\ UNCHANGED <<cfg, now, buckets, last, admits, heap, tps, script,
                   factory, response>>

NextProcesses ==
    \/ \E p \in Processes : read_clock(p)
    \/ \E p \in Processes, id \in DOMAIN redis : run_script(p, id)
    \/ Tick(MaxTimeProcesses)

SpecProcesses == InitProcesses /\ [][NextProcesses]_vars

(***************************************************************************)
(* Properties.                                                             *)
(***************************************************************************)
\* The number of the admissions listed in seq that fall in [from, from + len].
AdmittedWithin(seq, from, len) ==
    Cardinality({i \in 1..Len(seq) : from <= seq[i] /\ seq[i] <= from + len})

\* Every closed interval of one window holds at most k admissions of a client.  An
\* interval holding admissions can be moved to start at its first one without
\* losing any, so the intervals that start at an admission are enough.
AdmissionBound(k) ==
    \A id \in DOMAIN admits : \A i \in 1..Len(admits[id]) :
        AdmittedWithin(admits[id], admits[id][i], Ticks(cfg.time_window)) <= k

\* The same for the half-open intervals [from, from + window): the weakest reading
\* of "an interval of length window".
AdmissionBoundHalfOpen(k) ==
    \A id \in DOMAIN admits : \A i \in 1..Len(admits[id]) :
        AdmittedWithin(admits[id], admits[id][i], Ticks(cfg.time_window) - 1) <= k

\* Some interval of one window holds exactly k admissions of a client.
AdmissionsReach(k) ==
    \E id \in DOMAIN admits : \E i \in 1..Len(admits[id]) :
        AdmittedWithin(admits[id], admits[id][i], Ticks(cfg.time_window)) = k

Refilling(c) == DefaultTokenBucket(c) \/ c.algorithm = LEAKY_BUCKET

Answered(id) == last[id].op = "is_allowed" /\ last[id].error = NoError

Rejected(id) == Answered(id) /\ ~last[id].d.allowed

Admitted(id) == Answered(id) /\ last[id].d.allowed

\* C1: sliding window: since a client's last reset, the admissions whose times fall
\* in any closed interval of `window` seconds number at most capacity.
C1_SlidingWindowAdmissionBound ==
    cfg.algorithm = SLIDING_WINDOW => AdmissionBound(cfg.max_requests)

\* C1 witness: a sliding-window client admitted more than capacity times in all,
\* capacity of them inside one window.
C1_Witness ==
    /\ cfg.algorithm = SLIDING_WINDOW
    /\ Len(admits["A"]) > cfg.max_requests
    /\ AdmissionsReach(cfg.max_requests)

\* C2 as stated: token bucket (default burst and refill rate) and leaky bucket admit
\* at most capacity calls in any interval of `window` seconds (here even in its
\* weakest reading, the half-open intervals).
C2_RefillingAdmissionBound ==
    Refilling(cfg) => AdmissionBoundHalfOpen(cfg.max_requests)

\* C2 amended: token bucket (default burst and refill rate) and leaky bucket admit at
\* most 2 * capacity calls in any closed interval of `window` seconds: a full bucket
\* (an empty queue) plus what one window refills (leaks).
C2_RefillingAdmissionBoundTwice ==
    Refilling(cfg) => AdmissionBound(2 * cfg.max_requests)

\* C2 witness: a refilling limiter admitted 2 * capacity calls inside one window.
C2_Witness ==
    Refilling(cfg) /\ AdmissionsReach(2 * cfg.max_requests)

\* C5: an is_allowed that directly follows a reset of the same client at the same
\* clock value is admitted with remaining = capacity - 1 and in_window = 1.  (A row
\* of resets ends in a reset, so the row is covered.)
C5_ResetSemantics ==
    \A id \in DOMAIN last :
        Answered(id) /\ last[id].prev.op = "reset" =>
            /\ last[id].d.allowed
            /\ last[id].d.remaining = cfg.max_requests - 1
            /\ last[id].d.requests_in_window = 1

\* C5 witness: after the clock has moved, a client was reset and then asked, and
\* was admitted.
C5_Witness ==
    /\ Admitted("A") /\ last["A"].prev.op = "reset"
    /\ now > 0
    /\ admits["A"] = <<now>>

\* C7: of two directly consecutive admitted is_allowed calls of a client at one clock
\* value, the second reports a strictly smaller remaining.
C7_MonotoneRemaining ==
    \A id \in DOMAIN last :
        Admitted(id) /\ last[id].prev.op = "is_allowed" /\ last[id].prev.d.allowed =>
            last[id].d.remaining < last[id].prev.d.remaining

\* C7 witness: two admissions in a row at one clock value, after time has passed.
C7_Witness ==
    /\ Admitted("A") /\ last["A"].prev.op = "is_allowed" /\ last["A"].prev.d.allowed
    /\ now > 0

\* C8 as stated: every rejected is_allowed made at clock value now returns a
\* reset_time with reset_time >= now and reset_time - now <= window + 1.
C8_ResetHonorsWindow ==
    \A id \in DOMAIN last :
        Rejected(id) =>
            /\ Ticks(last[id].d.reset_time) >= now
            /\ Ticks(last[id].d.reset_time) - now <= Ticks(cfg.time_window + 1)

\* C9: the first is_allowed of a client the limiter holds no state for is admitted
\* with remaining = capacity - 1, and the state it leaves was created at that clock
\* value.
FreshlyCreated(c, s, t) ==
    CASE c.algorithm = TOKEN_BUCKET -> s.last_refill = t
      [] c.algorithm = SLIDING_WINDOW -> s = <<t>>
      [] c.algorithm = LEAKY_BUCKET -> s.last_leak_time = t /\ s.queue = <<t>>
      [] c.algorithm = FIXED_WINDOW -> s.window_start = t /\ s.count = 1

C9_LazyFreshState ==
    [][\A id \in DOMAIN buckets :
         buckets[id] = <<>> /\ last'[id] # last[id] /\ last'[id].op = "is_allowed" =>
            /\ last'[id].d.allowed
            /\ last'[id].d.remaining = cfg.max_requests - 1
            /\ FreshlyCreated(cfg, buckets'[id][1], now)]_vars

\* C9 witness: a client first asked after the clock has moved, holding the state of
\* one admission made now.
C9_Witness ==
    /\ now > 0
    /\ Admitted("A") /\ last["A"].prev.op = "none"
    /\ admits["A"] = <<now>>
    /\ FreshlyCreated(cfg, buckets["A"][1], now)

\* C10: every Decision has 0 <= remaining <= capacity (<= burst for the token
\* bucket), and a rejected one has remaining = 0.
Ceiling(c) ==
    IF c.algorithm = TOKEN_BUCKET /\ c.burst_size # 0 THEN c.burst_size
    ELSE c.max_requests

C10_RemainingRange ==
    \A id \in DOMAIN last :
        Answered(id) =>
            /\ last[id].d.remaining \in 0..Ceiling(cfg)
            /\ ~last[id].d.allowed => last[id].d.remaining = 0

\* C10 witness: a client admitted earlier is rejected after the clock has moved.
C10_Witness ==
    /\ Rejected("A")
    /\ now > 0
    /\ admits["A"] # <<>>

\* C6: an is_allowed on one client leaves every other client's state as it was; and
\* the first is_allowed of a client, made while another client stands rejected, is
\* admitted with remaining = capacity - 1.
C6_ClientIndependence ==
    [][\A a, b \in DOMAIN buckets :
         a # b /\ last'[a] # last[a] /\ last'[a].op = "is_allowed" =>
            /\ buckets'[b] = buckets[b]
            /\ (buckets[a] = <<>> /\ Rejected(b)) =>
                  /\ last'[a].d.allowed
                  /\ last'[a].d.remaining = cfg.max_requests - 1]_vars

\* C6 witness: A stands rejected and B, never referenced before, has just been
\* admitted.
C6_Witness ==
    /\ now = 0
    /\ Rejected("A")
    /\ Admitted("B") /\ last["B"].prev.op = "none"
    /\ last["B"].d.remaining = cfg.max_requests - 1

(***************************************************************************)
(* Properties of concurrent callers.                                       *)
(***************************************************************************)
Returned(t) == pc[t] = Done

AllReturned == \A t \in Threads : pc[t] \in {Done, Raised}

\* The state and the Decisions of n is_allowed calls made one after the other on a
\* client without state, at clock value t.
RECURSIVE Sequential(_, _, _)
Sequential(c, n, t) ==
    IF n = 0 THEN [state |-> Fresh(c, t), ds |-> <<>>]
    ELSE LET before == Sequential(c, n - 1, t)
             out == IsAllowedOn(c, before.state, t)
         IN [state |-> out.state, ds |-> Append(before.ds, out.d)]

\* Some order of the threads' calls explains every Decision and the state the map
\* holds at the end.
Linearizable ==
    LET seq == Sequential(cfg, NThreads, now) IN
    /\ \A t \in Threads : Returned(t)
    /\ buckets[Shared] # <<>>
    /\ heap[buckets[Shared][1]] = <<seq.state>>
    /\ \E order \in [Threads -> Threads] :
          /\ \A t, u \in Threads : t # u => order[t] # order[u]
          /\ \A t \in Threads : loc[t].d = seq.ds[order[t]]

\* C3 as stated: threads calling is_allowed concurrently for one fresh client at one
\* clock value are admitted at most capacity times in total, whatever the
\* interleaving of their reads and writes.
C3_ConcurrentAdmissionBound ==
    Cardinality({t \in Threads : Returned(t) /\ loc[t].d.allowed}) <= cfg.max_requests

\* C4 as stated: once the concurrent calls have returned, their Decisions and the
\* client's state are those of some sequential order of the calls, and none raised.
C4_Linearizable ==
    AllReturned => Linearizable

(***************************************************************************)
(* Properties of the error paths.                                          *)
(***************************************************************************)
\* C11: the Decision of every is_allowed call, of a local limiter or of the
\* distributed one (the calls a failing store lets through included), carries a
\* retry_after if and only if it rejects.
C11_RetryAfterIffRejected ==
    \A id \in DOMAIN last :
        Answered(id) => (last[id].d.retry_after # <<>> <=> ~last[id].d.allowed)

\* C11 witness: the distributed limiter rejected a client at this clock value, and
\* the call after it went through on a store failure, without a retry_after.
C11_Witness ==
    /\ cfg.distributed
    /\ Admitted("A") /\ last["A"].d.retry_after = <<>>
    /\ last["A"].d.requests_in_window = 0
    /\ last["A"].prev.op = "is_allowed" /\ ~last["A"].prev.d.allowed
    /\ last["A"].prev.d.retry_after # <<>>

\* C12: under a policy with capacity >= 1 and window >= 1 the constructor does not
\* raise, and no is_allowed, reset or get_status call on a client with a non-empty
\* id raises, whatever the calls before it and however the clock moved: no
\* division by a zero rate, no read of the front of an empty deque.
C12_LocalOperationsTotal ==
    /\ ConstructError(cfg) = NoError
    /\ \A id \in DOMAIN last : last[id].error = NoError

\* C12 witness: a sliding-window client that was admitted more than capacity times
\* in all (so that old entries were dropped) is rejected: the reject branch read the
\* front of the deque.
C12_Witness ==
    /\ cfg.algorithm = SLIDING_WINDOW
    /\ Rejected("A")
    /\ Len(admits["A"]) > cfg.max_requests
    /\ buckets["A"][1] # <<>>

\* C13 as stated: under a policy with capacity <= 0, window <= 0 or burst < capacity
\* no is_allowed call is ever served, or fails: there is no limiter to ask.
C13_InvalidPolicyRefused ==
    cfg \in InvalidConfigs => \A id \in DOMAIN last : last[id].op # "is_allowed"

\* C14 as stated: is_allowed with the empty string as client id fails with a
\* client-id error and creates or changes no per-client state.
C14_EmptyClientIdRefused ==
    [][\A id \in DOMAIN last :
         id = "" /\ last'[id] # last[id] /\ last'[id].op = "is_allowed" =>
            /\ last'[id].error = "ClientIdError"
            /\ buckets' = buckets]_vars

(***************************************************************************)
(* Properties of hints, refill, expiry, leak and window reset.             *)
(***************************************************************************)
\* The admissions of a client made at clock value t, and those made before it.
AdmissionsAt(id, t) == Cardinality({i \in 1..Len(admits[id]) : admits[id][i] = t})

AdmissionsBefore(id, t) == SelectSeq(admits[id], LAMBDA x : x < t)

\* The client's latest admissions before now were exactly capacity admissions at one
\* clock value; DrainedAt is that value.
DrainedAt(id) == AdmissionsBefore(id, now)[Len(AdmissionsBefore(id, now))]

Drained(id) ==
    /\ AdmissionsBefore(id, now) # <<>>
    /\ AdmissionsAt(id, DrainedAt(id)) = cfg.max_requests

\* C15 as stated: every rejected token-bucket is_allowed (default refill rate)
\* returns retry_after = ceil(window / capacity).
C15_RetryAfterCeiling ==
    \A id \in DOMAIN last :
        DefaultTokenBucket(cfg) /\ Rejected(id) =>
            last[id].d.retry_after =
                <<(cfg.time_window + cfg.max_requests - 1) \div cfg.max_requests>>

\* C15 amended: every rejected token-bucket is_allowed (default refill rate) returns
\* retry_after = window / capacity rounded down (int() truncates), which is 0 when
\* capacity > window; for capacity=10, window=60 the rejected calls return 6.
C15_RetryAfterTruncated ==
    \A id \in DOMAIN last :
        DefaultTokenBucket(cfg) /\ Rejected(id) =>
            /\ last[id].d.retry_after = <<cfg.time_window \div cfg.max_requests>>
            /\ cfg = E1.cfg => last[id].d.retry_after = <<6>>

\* C15 witness: scenario E1 has run: fifteen calls at one instant, ten admitted, the
\* last one rejected with retry_after = 6.
C15_Witness ==
    /\ cfg = E1.cfg /\ script.calls = E1.calls /\ ~Pending
    /\ Len(admits["c1"]) = 10
    /\ Rejected("c1") /\ last["c1"].d.retry_after = <<6>>

\* C16: token bucket: when a client's latest admissions were capacity admissions at
\* one clock value t (the bucket was drained) and 1 / refill_rate seconds or more
\* have gone by since, the first is_allowed admitted or rejected since t is admitted.
\* (Of the exact product elapsed * refill_rate; see the note on arithmetic above.)
C16_RefillAfterDrain ==
    \A id \in DOMAIN admits :
        /\ cfg.algorithm = TOKEN_BUCKET
        /\ Answered(id)
        /\ Drained(id)
        /\ (now - DrainedAt(id)) * RefillRate(cfg)[1] >= RefillRate(cfg)[2] * tps
        /\ AdmissionsAt(id, now) = 0
        => last[id].d.allowed

\* C16 witness: a default bucket drained at t is asked for the first time again
\* exactly 1 / refill_rate seconds later and admitted, on the one token refilled.
C16_Witness ==
    /\ DefaultTokenBucket(cfg)
    /\ Admitted("A") /\ last["A"].prev.op = "none"
    /\ Drained("A")
    /\ Len(admits["A"]) = cfg.max_requests + 1
    /\ (now - DrainedAt("A")) * RefillRate(cfg)[1] = RefillRate(cfg)[2] * tps
    /\ buckets["A"][1].tokens = 0

\* C17: sliding window: when a client's latest admissions before now were capacity
\* admissions at one clock value t and now > t + window, the calls made now are
\* admitted until capacity of them have been; scenario E2 ends with seven
\* admissions in all, the two calls at t=11 among them.
C17_ExpiryAdmitsBurst ==
    /\ \A id \in DOMAIN admits :
          /\ cfg.algorithm = SLIDING_WINDOW
          /\ Answered(id)
          /\ Drained(id)
          /\ now > DrainedAt(id) + Ticks(cfg.time_window)
          => last[id].d.allowed \/ AdmissionsAt(id, now) >= cfg.max_requests
    /\ script.calls = E2.calls /\ ~Pending =>
          /\ Len(admits["c2"]) = 7
          /\ AdmissionsAt("c2", now) = 2

\* C17 witness: capacity admissions at t, and capacity more at the first clock value
\* after t + window, the last of them just now.
C17_Witness ==
    /\ script = NoScript
    /\ cfg.algorithm = SLIDING_WINDOW
    /\ Admitted("A")
    /\ Drained("A")
    /\ now = DrainedAt("A") + Ticks(cfg.time_window) + 1
    /\ AdmissionsAt("A", now) = cfg.max_requests
    /\ Len(admits["A"]) = 2 * cfg.max_requests

\* C18: leaky bucket: when a client's queue holds capacity requests, its last call
\* was at clock value t and 1 / leak_rate seconds or more have gone by since (so at
\* every t + k / leak_rate, k >= 1), an is_allowed is admitted.  (Of the exact
\* product elapsed * leak_rate; see the note on arithmetic above.)
C18_LeakAdmitsAfterFill ==
    [][\A id \in DOMAIN buckets :
         /\ cfg.algorithm = LEAKY_BUCKET
         /\ buckets[id] # <<>>
         /\ Len(buckets[id][1].queue) = cfg.max_requests
         /\ (now - buckets[id][1].last_leak_time) * cfg.max_requests
                >= Ticks(cfg.time_window)
         /\ last'[id] # last[id] /\ last'[id].op = "is_allowed"
         => last'[id].d.allowed]_vars

\* C18 witness: scenario E3 has run: seven calls at t=0, five admitted; the call at
\* t=2 admitted, into the place of the one request leaked.
C18_Witness ==
    /\ cfg = E3.cfg /\ script.calls = E3.calls /\ ~Pending
    /\ Len(admits["c3"]) = 6 /\ AdmissionsAt("c3", 0) = 5
    /\ Admitted("c3") /\ now = Ticks(2)
    /\ buckets["c3"][1].total_leaked = 1

\* C19: fixed window: an is_allowed made at a clock value >= window_start + window
\* is admitted with in_window = 1 and remaining = capacity - 1 whatever the count
\* was, and leaves count = 1 and window_start = that clock value.
C19_ResetAtBoundary ==
    [][\A id \in DOMAIN buckets :
         /\ cfg.algorithm = FIXED_WINDOW
         /\ buckets[id] # <<>>
         /\ now >= buckets[id][1].window_start + Ticks(cfg.time_window)
         /\ last'[id] # last[id] /\ last'[id].op = "is_allowed"
         => /\ last'[id].d.allowed
            /\ last'[id].d.requests_in_window = 1
            /\ last'[id].d.remaining = cfg.max_requests - 1
            /\ buckets'[id] = <<[count |-> 1, window_start |-> now]>>]_vars

\* C19 witness: a window that was full is reset by the call made exactly one window
\* after it began.
C19_Witness ==
    /\ cfg.algorithm = FIXED_WINDOW
    /\ Admitted("A") /\ last["A"].prev.op = "none"
    /\ last["A"].d.requests_in_window = 1
    /\ Len(admits["A"]) = cfg.max_requests + 1
    /\ admits["A"][1] = now - Ticks(cfg.time_window)
    /\ buckets["A"][1] = [count |-> 1, window_start |-> now]

\* C20 as stated: scenario E5: capacity=10, window=5, a client without state: the
\* ten calls at t=4.9 and the ten calls at t=5.0 are all admitted.
C20_BoundaryBurst ==
    cfg = E5.cfg /\ script.calls = E5.calls =>
        \A id \in DOMAIN last : Answered(id) => last[id].d.allowed

\* C20 amended: capacity=10, window=5, a client whose state was created at t=0 (by
\* a get_status) and has no admission yet: the ten calls at t=4.9 and the ten calls
\* at t=5.0 are all admitted.
C20_BoundaryBurstFromZero ==
    cfg = E5FromZero.cfg /\ script.calls = E5FromZero.calls =>
        \A id \in DOMAIN last : Answered(id) => last[id].d.allowed

\* C20 witness: the amended scenario has run: twenty admissions, the last one the
\* tenth of the window that began at t=5.0.
C20_Witness ==
    /\ cfg = E5FromZero.cfg /\ script.calls = E5FromZero.calls /\ ~Pending
    /\ now = 50
    /\ Len(admits["c5"]) = 20 /\ AdmissionsAt("c5", 49) = 10
    /\ Admitted("c5") /\ last["c5"].d.requests_in_window = 10
    /\ buckets["c5"][1] = [count |-> 10, window_start |-> 50]

(***************************************************************************)
(* The factory and the limiters it makes.                                  *)
(***************************************************************************)
\* The Decision limiter l would return to client "A" at clock value t, the store
\* (healthy) holding `store`.
Decide(l, store, t) ==
    IF l.type = DistributedRateLimiter
    THEN DistributedIsAllowed(l.config, store["A"], t, 1, "ok").d
    ELSE IsAllowedOn(Policy(l), Lookup(Policy(l), l.buckets["A"], t), t).d

\* C21 as stated: two create calls with policies of equal fingerprint return the same
\* limiter instance: at every moment the two results are one object, with one map of
\* per-client state, and would give the client the same Decision.
C21_FactoryDeduplicates ==
    \A h1, h2 \in DOMAIN factory.made :
        LET l1 == factory.made[h1]
            l2 == factory.made[h2]
        IN IsLimiter(l1) /\ IsLimiter(l2) /\ l1.config = l2.config =>
              /\ l1 = l2
              /\ Decide(l1, redis, now) = Decide(l2, redis, now)

\* The result of the create call this step makes under the name h.
Created(h) == h \notin DOMAIN factory.made /\ h \in DOMAIN factory'.made

\* C22 as stated: create with distributed=False returns an instance of the class
\* registered for the tag at that moment (of the class named after the tag while the
\* registry is the built-in one), and create with a tag the registry does not hold
\* fails with a configuration error whatever the other fields of the policy are.
C22_DispatchByTag ==
    [][\A h \in Limiters : Created(h) =>
          LET l == factory'.made[h]
              c == l.config
          IN /\ ~c.distributed /\ c.algorithm \in DOMAIN factory.registry =>
                   /\ l.type = factory.registry[c.algorithm]
                   /\ factory.registry = BuiltInLimiters =>
                         Implements(l.type) = c.algorithm
             /\ c.algorithm \notin DOMAIN factory.registry => l.type = ValueError]_vars

\* C22 amended: the unregistered tag fails with ValueError when distributed=False;
\* with distributed=True create returns a DistributedRateLimiter whatever the tag.
C22_DispatchByTagLocal ==
    [][\A h \in Limiters : Created(h) =>
          LET l == factory'.made[h]
              c == l.config
          IN /\ ~c.distributed /\ c.algorithm \in DOMAIN factory.registry =>
                   /\ l.type = factory.registry[c.algorithm]
                   /\ factory.registry = BuiltInLimiters =>
                         Implements(l.type) = c.algorithm
             /\ ~c.distributed /\ c.algorithm \notin DOMAIN factory.registry =>
                   l.type = ValueError
             /\ c.distributed => l.type = DistributedRateLimiter]_vars

\* C22 witness: under the built-in registry one create with the unregistered tag
\* failed and another, with distributed=True and the same tag, returned a limiter.
C22_Witness ==
    /\ factory.registry = BuiltInLimiters
    /\ DOMAIN factory.made = Limiters
    /\ factory.made["L1"].type = ValueError
    /\ factory.made["L1"].config.algorithm = SLIDING_WINDOW_LOG
    /\ factory.made["L2"].type = DistributedRateLimiter
    /\ factory.made["L2"].config.algorithm = SLIDING_WINDOW_LOG

(***************************************************************************)
(* The distributed limiter.                                                *)
(***************************************************************************)
\* C23: whenever the store call inside the distributed is_allowed fails, is_allowed
\* raises nothing and returns admitted = true, remaining = capacity - 1 and no
\* retry_after.
C23_FailOpen ==
    \A id \in DOMAIN last :
        (/\ cfg.distributed
         /\ last[id].op = "is_allowed"
         /\ last[id].logged = RedisError) =>
            /\ last[id].error = NoError
            /\ last[id].d.allowed
            /\ last[id].d.remaining = cfg.max_requests - 1
            /\ last[id].d.retry_after = <<>>

\* C23 witness: the client was rejected by the healthy store, and the next call at
\* the same clock value, its store call failing, was let through.
C23_Witness ==
    /\ cfg.distributed
    /\ last["A"].op = "is_allowed"
    /\ last["A"].logged = RedisError
    /\ last["A"].d.allowed
    /\ last["A"].prev.op = "is_allowed"
    /\ ~last["A"].prev.d.allowed

(***************************************************************************)
(* Two limiters, one client.                                               *)
(***************************************************************************)
\* This step is an is_allowed or a reset call on the limiter held under h.
CallOn(h) ==
    \E id \in DOMAIN redis : limiter_is_allowed(h, id) \/ limiter_reset(h, id)

\* C24 as stated: for two limiters of different policies, local or distributed, no
\* is_allowed or reset call on the one changes the Decision the other would give the
\* same client.
C24_StateOwnership ==
    [][\A h1, h2 \in DOMAIN factory.made :
          (/\ IsLimiter(factory.made[h1])
           /\ IsLimiter(factory.made[h2])
           /\ factory.made[h1].config # factory.made[h2].config
           /\ CallOn(h1)) =>
              Decide(factory'.made[h2], redis', now')
                  = Decide(factory.made[h2], redis, now)]_vars

\* C25 as stated: fed the same sequence of is_allowed calls at non-decreasing clock
\* values, the distributed limiter on a healthy store and the local sliding-window
\* limiter return the same outcome, remaining and in_window: after every such
\* sequence the Decisions the two give the next call agree.
C25_SameAsLocal ==
    \A id \in DOMAIN redis :
        LET d == DistributedIsAllowed(cfg, redis[id], now, 1, "ok").d
            l == SlidingWindowIsAllowed(LocalOf(cfg),
                                        Lookup(LocalOf(cfg), buckets[id], now), now).d
        IN /\ d.allowed = l.allowed
           /\ d.remaining = l.remaining
           /\ d.requests_in_window = l.requests_in_window

(***************************************************************************)
(* The HTTP adapter.                                                       *)
(***************************************************************************)
\* C26 as stated: every response to a request routed through the rate-limit filter,
\* admitted or rejected, carries X-RateLimit-Limit equal to the policy's capacity.
C26_LimitHeaderIsCapacity ==
    response # <<>> /\ response.status \in {200, 429} =>
        /\ "X-RateLimit-Limit" \in DOMAIN response.headers
        /\ response.headers["X-RateLimit-Limit"] = ToString(cfg.max_requests)

(***************************************************************************)
(* The sliding window's admission condition.                               *)
(***************************************************************************)
\* The admissions of a client logged before its latest call whose timestamps ts
\* satisfy from < ts <= now.
LoggedAfter(id, from) ==
    Cardinality({i \in 1..Len(admits[id]) : from < admits[id][i] /\ admits[id][i] <= now})
        - (IF last[id].d.allowed THEN 1 ELSE 0)

\* C27 as stated: a sliding-window is_allowed call at clock value now is admitted if
\* and only if fewer than capacity logged admission timestamps ts satisfy
\* now - window < ts <= now; a timestamp equal to now - window does not count.
C27_AdmissionCondition ==
    \A id \in DOMAIN admits :
        cfg.algorithm = SLIDING_WINDOW /\ Answered(id) =>
            (last[id].d.allowed <=>
                LoggedAfter(id, now - Ticks(cfg.time_window)) < cfg.max_requests)

(***************************************************************************)
(* The leaky bucket's leak step.                                           *)
(***************************************************************************)
\* The earliest clock value from t on at which is_allowed on state s would be
\* admitted, were no other call made before.
NextAdmission(c, s, t) ==
    CHOOSE u \in t..(t + Ticks(c.time_window)) :
        /\ IsAllowedOn(c, s, u).d.allowed
        /\ \A v \in t..(u - 1) : ~IsAllowedOn(c, s, v).d.allowed

\* This step is a call on the client that admits nothing: a rejected is_allowed or a
\* get_status.
Polled(id) ==
    \/ last'[id].op = "is_allowed" /\ last'[id].error = NoError /\ ~last'[id].d.allowed
    \/ last'[id].op = "get_status"

\* C28 as stated: a leaky-bucket client whose queue is full and who keeps calling is
\* admitted again as the clock advances; a rejected call (or a get_status) does not
\* postpone the next admission: the earliest clock value at which the client would
\* be admitted is no later after the call than before it.
C28_PollingDoesNotPostpone ==
    [][\A id \in DOMAIN buckets :
          (/\ cfg.algorithm = LEAKY_BUCKET
           /\ buckets[id] # <<>>
           /\ Len(buckets[id][1].queue) = cfg.max_requests
           /\ Polled(id)) =>
              NextAdmission(cfg, buckets'[id][1], now)
                  <= NextAdmission(cfg, buckets[id][1], now)]_vars

\* C29 as stated: a leak step in which nothing is popped leaves last_leak unchanged;
\* last_leak is set to now only in a step that removed at least one item.
C29_LastLeakOnlyOnLeak ==
    [][\A id \in DOMAIN buckets :
          (/\ cfg.algorithm = LEAKY_BUCKET
           /\ buckets[id] # <<>>
           /\ last'[id].op \in {"is_allowed", "get_status"}
           /\ buckets'[id][1].last_leak_time # buckets[id][1].last_leak_time) =>
              buckets'[id][1].total_leaked > buckets[id][1].total_leaked]_vars

(***************************************************************************)
(* The in-window count of a Decision.                                      *)
(***************************************************************************)
\* C30 as stated: every Decision has 0 <= in_window <= capacity, those of a token
\* bucket with burst > capacity that has refilled above capacity included.
C30_InWindowRange ==
    \A id \in DOMAIN last :
        Answered(id) =>
            /\ 0 <= last[id].d.requests_in_window
            /\ last[id].d.requests_in_window <= cfg.max_requests

(***************************************************************************)
(* The sliding window's retry hint.                                        *)
(***************************************************************************)
\* ceil(n / d) for n >= 0 and d > 0.
CeilDiv(n, d) == (n + d - 1) \div d

\* C31 as stated: every rejected sliding-window is_allowed at clock value now
\* returns retry_after = max(1, ceil(log[0] + window - now)), log[0] being the oldest
\* timestamp still in the log.
C31_SlidingRetryAfter ==
    \A id \in DOMAIN last :
        cfg.algorithm = SLIDING_WINDOW /\ Rejected(id) =>
            LET wait == CeilDiv(buckets[id][1][1] + Ticks(cfg.time_window) - now, tps)
            IN last[id].d.retry_after = <<IF wait < 1 THEN 1 ELSE wait>>

(***************************************************************************)
(* Counting.                                                               *)
(***************************************************************************)
\* All the admissions of the client since its state was last fresh (created or reset)
\* lie in one window that began with the first of them: the fixed window began at
\* the first admission, the oldest entry of the sliding window's log is that one.
FromFresh(id) ==
    /\ admits[id] # <<>>
    /\ buckets[id] # <<>>
    /\ \/ /\ cfg.algorithm = FIXED_WINDOW
          /\ buckets[id][1].window_start = admits[id][1]
       \/ /\ cfg.algorithm = SLIDING_WINDOW
          /\ buckets[id][1] # <<>>
          /\ buckets[id][1][1] = admits[id][1]

\* C32: sliding and fixed window: of consecutive is_allowed calls for a fresh client
\* within one window the k-th, for every k from 1 to capacity, is admitted and
\* reports in_window = k and remaining = capacity - k; a call is rejected only after
\* capacity admissions.
C32_ExactCounting ==
    \A id \in DOMAIN admits :
        Answered(id) /\ FromFresh(id) =>
            IF last[id].d.allowed
            THEN /\ last[id].d.requests_in_window = Len(admits[id])
                 /\ last[id].d.remaining = cfg.max_requests - Len(admits[id])
                 /\ Len(admits[id]) <= cfg.max_requests
            ELSE Len(admits[id]) = cfg.max_requests

\* C32 witness: a fixed-window or sliding-window client admitted capacity times from
\* fresh, at more than one clock value, the last call reporting in_window = capacity.
C32_Witness ==
    /\ cfg.algorithm \in {FIXED_WINDOW, SLIDING_WINDOW}
    /\ cfg.max_requests = MaxCapacity
    /\ Admitted("A")
    /\ FromFresh("A")
    /\ Len(admits["A"]) = cfg.max_requests
    /\ now > admits["A"][1]
    /\ last["A"].d.requests_in_window = cfg.max_requests
    /\ last["A"].d.remaining = 0

(***************************************************************************)
(* Occupancy.                                                              *)
(***************************************************************************)
\* What a client's state holds: the length of the sliding window's log or of the
\* leaky bucket's queue, the fixed window's count; nothing before the state exists.
Occupancy(c, slot) ==
    IF slot = <<>> THEN 0
    ELSE CASE c.algorithm = SLIDING_WINDOW -> Len(slot[1])
           [] c.algorithm = LEAKY_BUCKET -> Len(slot[1].queue)
           [] c.algorithm = FIXED_WINDOW -> slot[1].count

\* C33: sliding window, leaky bucket and fixed window, one caller: whatever the calls
\* and clock advances, the occupancy stored for a client never exceeds capacity, and
\* a rejected is_allowed leaves it as it was.
C33_BoundedOccupancy ==
    [][\A id \in DOMAIN buckets :
          cfg.algorithm \in {SLIDING_WINDOW, LEAKY_BUCKET, FIXED_WINDOW} =>
              /\ Occupancy(cfg, buckets'[id]) <= cfg.max_requests
              /\ (/\ last'[id].op = "is_allowed"
                  /\ last'[id].error = NoError
                  /\ ~last'[id].d.allowed) =>
                     Occupancy(cfg, buckets'[id]) = Occupancy(cfg, buckets[id])]_vars

\* C33 witness: a leaky-bucket client whose queue is full, rejected at a clock value
\* later than the one its state was created at (the leak step ran on a full queue).
C33_Witness ==
    /\ cfg.algorithm = LEAKY_BUCKET
    /\ Rejected("A")
    /\ Occupancy(cfg, buckets["A"]) = cfg.max_requests
    /\ buckets["A"][1].last_leak_time > buckets["A"][1].queue[1]

\* C34: fixed window, one client, since its last reset: the admissions whose times
\* fall in any interval shorter than `window` seconds number at most twice the
\* capacity, whatever is_allowed and get_status calls and clock advances were made.
C34_FixedWindowWorstCase ==
    cfg.algorithm = FIXED_WINDOW => AdmissionBoundHalfOpen(2 * cfg.max_requests)

\* C34 witness: the worst case happens: an interval shorter than one window holds
\* twice the capacity, the end of one window and the start of the next.
C34_Witness ==
    /\ cfg.algorithm = FIXED_WINDOW
    /\ cfg.max_requests = MaxCapacity
    /\ \E i \in 1..Len(admits["A"]) :
          AdmittedWithin(admits["A"], admits["A"][i], Ticks(cfg.time_window) - 1)
              = 2 * cfg.max_requests
    /\ buckets["A"] # <<>>
    /\ buckets["A"][1].count = cfg.max_requests

\* What an is_allowed at time t would answer on a client's slot: admitted or
\* rejected, and the remaining it reports.
Answer(c, slot, t) ==
    LET d == IsAllowedOn(c, Lookup(c, slot, t), t).d
    IN <<d.allowed, d.remaining>>

\* C35: every local algorithm, one caller: a get_status call, a client's first call
\* included, changes neither the outcome nor the remaining of the client's next
\* is_allowed, whenever that one is made.
C35_InspectObservationOnly ==
    [][\A id \in DOMAIN buckets :
          get_status(id) =>
              \A t \in now..MaxTime :
                  Answer(cfg, buckets'[id], t) = Answer(cfg, buckets[id], t)]_vars

\* The entries of a client's key, as the store shows them now.
Entries(id) ==
    LET live == ReadKey(redis[id], now) IN IF live = <<>> THEN {} ELSE live[1].zset

\* C36: distributed limiter, any number of processes on one client's key, each call
\* passing its own clock reading to the script: the entries the script has added
\* whose scores fall in any interval of window_ms (taken half-open) number at most
\* capacity.
C36_StoreAdmissionBound ==
    \A id \in DOMAIN redis : \A e \in Entries(id) :
        Cardinality({f \in Entries(id) :
                        e[1] <= f[1] /\ f[1] < e[1] + cfg.time_window * 1000})
            <= cfg.max_requests

\* The time-to-live of a client's key in ticks, if the store holds the key.
TimeToLive(slot, t) ==
    LET live == ReadKey(slot, t) IN IF live = <<>> THEN <<>> ELSE <<live[1].expire_at - t>>

\* C37: distributed limiter, healthy store: after an admitted is_allowed the key's
\* time-to-live is `window` seconds; a rejected is_allowed leaves it as it was.
C37_KeyLifetime ==
    [][\A id \in DOMAIN redis :
          distributed_is_allowed(id) /\ last'[id].logged = NoError =>
              IF last'[id].d.allowed
              THEN TimeToLive(redis'[id], now') = <<Ticks(cfg.time_window)>>
              ELSE TimeToLive(redis'[id], now') = TimeToLive(redis[id], now)]_vars
====
